---- MODULE Spec2Model ----
(***************************************************************************)
(* Model of homework3.py: a Streamlit script that transcribes an uploaded  *)
(* WAV file with a speech-to-text pipeline, tags the transcript with a     *)
(* token-classification pipeline, groups the tagged spans into the three   *)
(* buckets ORGs / LOCs / PERs, removes duplicates and renders the result.  *)
(*                                                                         *)
(* One script run (one request) is a pass of main() from line 78 to the    *)
(* end of the script.  pc holds the source line the run is about to        *)
(* execute.  The two pipelines are external: their results are drawn from  *)
(* bounded sets, and every call into them may raise.                       *)
(***************************************************************************)
EXTENDS Integers, Sequences, FiniteSets, TLC

\* ------------------------------------------------------------------ bounds
MaxSpans == 2        \* longest span sequence the tagger returns
MaxRequests == 2     \* script runs in one behaviour

\* ------------------------------------------------------- external domains
None == "None"
Files == {"meeting.wav"}
Texts == {"", "Jane of Acme met Acme on Monday"}
Words == {"Acme", "Jane"}
Labels == {"ORG", "LOC", "PER", "MISC", "DATE"}
Keys == {"ORGs", "LOCs", "PERs"}

Spans == [entity_group : Labels, word : Words]
SpanSeqs == UNION {[1..n -> Spans] : n \in 0..MaxSpans}

Range(s) == {s[i] : i \in 1..Len(s)}

\* list(set(xs)): the elements of xs once each, in an order the set decides
Orderings(S) == {s \in [1..Cardinality(S) -> S] : Range(s) = S}

VARIABLES
    pc,               \* source line the run is at, or "done" / "failed"
    reqNo,            \* number of the current script run
    file,             \* main: file (line 89)
    loads,            \* number of pipeline(...) constructions so far
    whisper_model,    \* main: whisper_model (line 93)
    ner_model,        \* main: ner_model (line 94)
    tr_whisper,       \* transcribe_audio: whisper_model (line 38)
    audio,            \* transcribe_audio: audio (line 39)
    transcript,       \* main: transcript (line 95)
    entities,         \* extract_entities: entities (line 56)
    idx,              \* position of the for loop of line 59
    grouped_entities, \* extract_entities: grouped_entities; main: entities
    output,           \* the page: the st.* calls of this run, in order
    failedAt,         \* line whose call raised, when pc = "failed"
    asr_by,           \* history: handle that transcribed in this run
    ner_by,           \* history: handle that tagged in this run
    loadsAtStart,     \* history: value of loads when this run started
    seenWords,        \* history: words shown as bullets by earlier runs
    run,              \* SpecGroup: which grouping run is executing
    firstRun          \* SpecGroup: buckets returned by the first run

vars == <<pc, reqNo, file, loads, whisper_model, ner_model, tr_whisper, audio,
          transcript, entities, idx, grouped_entities, output, failedAt,
          asr_by, ner_by, loadsAtStart, seenWords, run, firstRun>>

handles == <<whisper_model, ner_model, tr_whisper>>
history == <<asr_by, ner_by, loadsAtStart, seenWords>>
groupRuns == <<run, firstRun>>

\* ------------------------------------------------------------ page items
Item(fn, text) == [fn |-> fn, text |-> text]

Bullet(w) == Item("write", "- " \o w)

\* lines 78-86; the name of line 81 is written here in ASCII
Header ==
    << Item("title", "Meeting Transcription and Entity Extraction"),
       Item("write", "**150220334 - Yusuf Oksuzer**"),
       Item("write", "Upload a business meeting audio file to:"),
       Item("write", "1. Transcribe the meeting audio into text."),
       Item("write", "2. Extract key entities such as Persons, Organizations, Dates and Locations.") >>

Heading == [ORGs |-> "**Organizations (ORGs):**",
            LOCs |-> "**Locations (LOCs):**",
            PERs |-> "**Persons (PERs):**"]

Placeholder == [ORGs |-> "No organizations found.",
                LOCs |-> "No locations found.",
                PERs |-> "No persons found."]

\* ------------------------------------------------------- model loading
\* variant: the speech-to-text handle is built once and kept for the process
load_whisper_model_cached(n) == [task |-> "automatic-speech-recognition", id |-> 1]

load_whisper_model(n) == [task |-> "automatic-speech-recognition", id |-> n]

load_ner_model(n) == [task |-> "ner", id |-> n]

NoHandle == [task |-> "none", id |-> 0]

EmptyBuckets == [ORGs |-> <<>>, LOCs |-> <<>>, PERs |-> <<>>]

Init ==
    /\ pc = "l78"
    /\ reqNo = 1
    /\ file = None
    /\ loads = 0
    /\ whisper_model = NoHandle
    /\ ner_model = NoHandle
    /\ tr_whisper = NoHandle
    /\ audio = None
    /\ transcript = None
    /\ entities = <<>>
    /\ idx = 1
    /\ grouped_entities = EmptyBuckets
    /\ output = <<>>
    /\ failedAt = None
    /\ asr_by = NoHandle
    /\ ner_by = NoHandle
    /\ loadsAtStart = 0
    /\ seenWords = {}
    /\ run = 0
    /\ firstRun = EmptyBuckets

\* ------------------------------------------------------------------ main
\* lines 78-89: the title and the four writes, then the uploader returns
\* the uploaded file or None
ShowForm ==
    /\ pc = "l78"
    /\ output' = Header
    /\ \E f \in Files \cup {None} : file' = f
    /\ pc' = "l91"
    /\ UNCHANGED <<reqNo, loads, handles, audio, transcript, entities, idx,
                   grouped_entities, failedAt, history, groupRuns>>

\* variant: the test of line 91 is missing
CheckFileAlways ==
    /\ pc = "l91"
    /\ pc' = "l93"
    /\ UNCHANGED <<reqNo, file, loads, handles, audio, transcript, entities,
                   idx, grouped_entities, output, failedAt, history, groupRuns>>

\* line 91: if file is not None
CheckFile ==
    /\ pc = "l91"
    /\ pc' = IF file # None THEN "l93" ELSE "done"
    /\ UNCHANGED <<reqNo, file, loads, handles, audio, transcript, entities,
                   idx, grouped_entities, output, failedAt, history, groupRuns>>

\* line 93
LoadWhisperMain ==
    /\ pc = "l93"
    /\ loads' = loads + 1
    /\ whisper_model' = load_whisper_model(loads + 1)
    /\ pc' = "l94"
    /\ UNCHANGED <<reqNo, file, ner_model, tr_whisper, audio, transcript,
                   entities, idx, grouped_entities, output, failedAt, history,
                   groupRuns>>

\* line 94, then line 95 enters transcribe_audio
LoadNer ==
    /\ pc = "l94"
    /\ loads' = loads + 1
    /\ ner_model' = load_ner_model(loads + 1)
    /\ pc' = "l38"
    /\ UNCHANGED <<reqNo, file, whisper_model, tr_whisper, audio, transcript,
                   entities, idx, grouped_entities, output, failedAt, history,
                   groupRuns>>

\* ------------------------------------------------------ transcribe_audio
\* line 38
TrLoadWhisper ==
    /\ pc = "l38"
    /\ loads' = loads + 1
    /\ tr_whisper' = load_whisper_model(loads + 1)
    /\ pc' = "l39"
    /\ UNCHANGED <<reqNo, file, whisper_model, ner_model, audio, transcript,
                   entities, idx, grouped_entities, output, failedAt, history,
                   groupRuns>>

\* line 39
TrRead ==
    /\ pc = "l39"
    /\ audio' = file
    /\ pc' = "l40"
    /\ UNCHANGED <<reqNo, file, loads, handles, transcript, entities, idx,
                   grouped_entities, output, failedAt, history, groupRuns>>

\* lines 40-41 and the assignment of line 95
TrInfer ==
    /\ pc = "l40"
    /\ \E t \in Texts : transcript' = t
    /\ asr_by' = tr_whisper
    /\ pc' = "l97"
    /\ UNCHANGED <<reqNo, file, loads, handles, audio, entities, idx,
                   grouped_entities, output, failedAt, ner_by, loadsAtStart,
                   seenWords, groupRuns>>

\* lines 97-98
WriteTranscript ==
    /\ pc = "l97"
    /\ output' = output \o << Item("subheader", "Transcription:"),
                              Item("write", transcript) >>
    /\ pc' = "l56"
    /\ UNCHANGED <<reqNo, file, loads, handles, audio, transcript, entities,
                   idx, grouped_entities, failedAt, history, groupRuns>>

\* ------------------------------------------------------ extract_entities
\* line 56: the tagger returns a sequence of spans; an empty text has none
NerInfer ==
    /\ pc = "l56"
    /\ \E es \in (IF transcript = "" THEN {<<>>} ELSE SpanSeqs) : entities' = es
    /\ ner_by' = ner_model
    /\ pc' = "l57"
    /\ UNCHANGED <<reqNo, file, loads, handles, audio, transcript, idx,
                   grouped_entities, output, failedAt, asr_by, loadsAtStart,
                   seenWords, groupRuns>>

\* variant: the dict is created once for the process, not at line 57
InitBucketsShared ==
    /\ pc = "l57"
    /\ idx' = 1
    /\ pc' = "l59"
    /\ UNCHANGED <<reqNo, file, loads, handles, audio, transcript, entities,
                   grouped_entities, output, failedAt, history, groupRuns>>

\* line 57, and the for statement of line 59 starting at the first span
InitBuckets ==
    /\ pc = "l57"
    /\ grouped_entities' = EmptyBuckets
    /\ idx' = 1
    /\ pc' = "l59"
    /\ UNCHANGED <<reqNo, file, loads, handles, audio, transcript, entities,
                   output, failedAt, history, groupRuns>>

\* variant: the last branch is an else, so any other entity_group is a PER
BucketOfCatchAll(entity) ==
    IF entity.entity_group = "ORG" THEN "ORGs"
    ELSE IF entity.entity_group = "LOC" THEN "LOCs"
    ELSE "PERs"

\* variant: the LOC branch appends to the bucket of the branch above it
BucketOfCopyPaste(entity) ==
    IF entity.entity_group = "ORG" THEN "ORGs"
    ELSE IF entity.entity_group = "LOC" THEN "ORGs"
    ELSE IF entity.entity_group = "PER" THEN "PERs"
    ELSE None

\* lines 60-65: the bucket a span goes to, or None when it is dropped
BucketOf(entity) ==
    IF entity.entity_group = "ORG" THEN "ORGs"
    ELSE IF entity.entity_group = "LOC" THEN "LOCs"
    ELSE IF entity.entity_group = "PER" THEN "PERs"
    ELSE None

\* lines 59-65: one iteration of the loop, or its exit
GroupStep ==
    /\ pc = "l59"
    /\ IF idx <= Len(entities)
         THEN /\ grouped_entities' =
                   IF BucketOf(entities[idx]) = None
                     THEN grouped_entities
                     ELSE [grouped_entities EXCEPT ![BucketOf(entities[idx])] =
                               Append(@, entities[idx].word)]
              /\ idx' = idx + 1
              /\ pc' = "l59"
         ELSE /\ UNCHANGED <<grouped_entities, idx>>
              /\ pc' = "l68"
    /\ UNCHANGED <<reqNo, file, loads, handles, audio, transcript, entities,
                   output, failedAt, history, groupRuns>>

\* variant: lines 68-69 are missing
DedupSkipped ==
    /\ pc = "l68"
    /\ pc' = "l71"
    /\ UNCHANGED <<reqNo, file, loads, handles, audio, transcript, entities,
                   idx, grouped_entities, output, failedAt, history, groupRuns>>

\* variant: a non-empty bucket keeps one element, the one set.pop() returns
DedupKeepsOne ==
    /\ pc = "l68"
    /\ \E g \in [Keys -> UNION {Orderings(S) : S \in SUBSET Words}] :
          /\ \A k \in Keys :
                /\ Range(g[k]) \subseteq Range(grouped_entities[k])
                /\ Len(g[k]) = IF grouped_entities[k] = <<>> THEN 0 ELSE 1
          /\ grouped_entities' = g
    /\ pc' = "l71"
    /\ UNCHANGED <<reqNo, file, loads, handles, audio, transcript, entities,
                   idx, output, failedAt, history, groupRuns>>

\* lines 68-69: every bucket becomes list(set(bucket))
Dedup ==
    /\ pc = "l68"
    /\ \E g \in [Keys -> UNION {Orderings(S) : S \in SUBSET Words}] :
          /\ \A k \in Keys : g[k] \in Orderings(Range(grouped_entities[k]))
          /\ grouped_entities' = g
    /\ pc' = "l71"
    /\ UNCHANGED <<reqNo, file, loads, handles, audio, transcript, entities,
                   idx, output, failedAt, history, groupRuns>>

\* line 71 and the assignment of line 101: main's entities is the very
\* dict that grouped_entities names, so the one variable stands for both
Return ==
    /\ pc = "l71"
    /\ pc' = "l103"
    /\ UNCHANGED <<reqNo, file, loads, handles, audio, transcript, entities,
                   idx, grouped_entities, output, failedAt, history, groupRuns>>

\* ------------------------------------------------------------- rendering
\* line 103
WriteEntitiesHeader ==
    /\ pc = "l103"
    /\ output' = Append(output, Item("subheader", "Extracted Entities:"))
    /\ pc' = "l104"
    /\ UNCHANGED <<reqNo, file, loads, handles, audio, transcript, entities,
                   idx, grouped_entities, failedAt, history, groupRuns>>

\* variant: the else branch with the placeholder is missing
RenderBucketNoElse(k) ==
    IF grouped_entities[k] # <<>>
      THEN <<Item("write", Heading[k])>> \o
           [i \in 1..Len(grouped_entities[k]) |-> Bullet(grouped_entities[k][i])]
      ELSE <<>>

\* the if / for / else of one category
RenderBucket(k) ==
    IF grouped_entities[k] # <<>>
      THEN <<Item("write", Heading[k])>> \o
           [i \in 1..Len(grouped_entities[k]) |-> Bullet(grouped_entities[k][i])]
      ELSE <<Item("write", Placeholder[k])>>

\* lines 104-109
RenderOrgs ==
    /\ pc = "l104"
    /\ output' = output \o RenderBucket("ORGs")
    /\ pc' = "l110"
    /\ UNCHANGED <<reqNo, file, loads, handles, audio, transcript, entities,
                   idx, grouped_entities, failedAt, history, groupRuns>>

\* lines 110-115
RenderLocs ==
    /\ pc = "l110"
    /\ output' = output \o RenderBucket("LOCs")
    /\ pc' = "l116"
    /\ UNCHANGED <<reqNo, file, loads, handles, audio, transcript, entities,
                   idx, grouped_entities, failedAt, history, groupRuns>>

\* lines 116-121
RenderPers ==
    /\ pc = "l116"
    /\ output' = output \o RenderBucket("PERs")
    /\ pc' = "done"
    /\ UNCHANGED <<reqNo, file, loads, handles, audio, transcript, entities,
                   idx, grouped_entities, failedAt, history, groupRuns>>

\* ---------------------------------------------------------------- faults
\* the calls into the two pipelines and into the upload: lines 93, 94, 38,
\* 39, 40 and 56
FailPoints == {"l93", "l94", "l38", "l39", "l40", "l56"}

\* variant: line 40 sits in a try statement whose handler returns ""
FailWithFallback ==
    /\ pc \in FailPoints
    /\ failedAt' = pc
    /\ IF pc = "l40"
         THEN transcript' = "" /\ pc' = "l97"
         ELSE transcript' = transcript /\ pc' = "failed"
    /\ UNCHANGED <<reqNo, file, loads, handles, audio, entities,
                   idx, grouped_entities, output, history, groupRuns>>

\* a call raises: no try statement encloses it, so the run ends there
Fail ==
    /\ pc \in FailPoints
    /\ failedAt' = pc
    /\ pc' = "failed"
    /\ UNCHANGED <<reqNo, file, loads, handles, audio, transcript, entities,
                   idx, grouped_entities, output, history, groupRuns>>

\* the next script run: the page is cleared and main starts again.  The
\* names of the run that ended are unbound; the dict of line 57 is left as
\* it was, and it is line 57 of the new run that replaces it
Rerun ==
    /\ pc \in {"done", "failed"}
    /\ reqNo < MaxRequests
    /\ reqNo' = reqNo + 1
    /\ output' = <<>>
    /\ failedAt' = None
    /\ file' = None
    /\ whisper_model' = NoHandle
    /\ ner_model' = NoHandle
    /\ tr_whisper' = NoHandle
    /\ audio' = None
    /\ transcript' = None
    /\ entities' = <<>>
    /\ idx' = 1
    /\ asr_by' = NoHandle
    /\ ner_by' = NoHandle
    /\ loadsAtStart' = loads
    /\ seenWords' = seenWords \cup {w \in Words : Bullet(w) \in Range(output)}
    /\ pc' = "l78"
    /\ UNCHANGED <<loads, grouped_entities, groupRuns>>

Next ==
    \/ ShowForm
    \/ CheckFile
    \/ LoadWhisperMain
    \/ LoadNer
    \/ TrLoadWhisper
    \/ TrRead
    \/ TrInfer
    \/ WriteTranscript
    \/ NerInfer
    \/ InitBuckets
    \/ GroupStep
    \/ Dedup
    \/ Return
    \/ WriteEntitiesHeader
    \/ RenderOrgs
    \/ RenderLocs
    \/ RenderPers
    \/ Fail
    \/ Rerun

Spec == Init /\ [][Next]_vars

\* -------------------------------------------- the grouping step on its own
\* extract_entities from line 57 on, run twice on one span sequence
InitGroup ==
    /\ pc = "l57"
    /\ reqNo = 1
    /\ file = None
    /\ loads = 0
    /\ whisper_model = NoHandle
    /\ ner_model = NoHandle
    /\ tr_whisper = NoHandle
    /\ audio = None
    /\ transcript = None
    /\ entities \in SpanSeqs
    /\ idx = 1
    /\ grouped_entities = EmptyBuckets
    /\ output = <<>>
    /\ failedAt = None
    /\ asr_by = NoHandle
    /\ ner_by = NoHandle
    /\ loadsAtStart = 0
    /\ seenWords = {}
    /\ run = 1
    /\ firstRun = EmptyBuckets

\* the first run has returned: keep its buckets and group the spans again
GroupAgain ==
    /\ pc = "l71"
    /\ run = 1
    /\ firstRun' = grouped_entities
    /\ run' = 2
    /\ pc' = "l57"
    /\ UNCHANGED <<reqNo, file, loads, handles, audio, transcript, entities,
                   idx, grouped_entities, output, failedAt, history>>

NextGroup ==
    \/ InitBuckets
    \/ GroupStep
    \/ Dedup
    \/ GroupAgain

SpecGroup == InitGroup /\ [][NextGroup]_vars

\* ================================================================ claims
\* the entity_group a bucket stands for
Category == [ORGs |-> "ORG", LOCs |-> "LOC", PERs |-> "PER"]

\* the run has uploaded a file and reached the end of the script
Completed == pc = "done" /\ file # None

\* grouped_entities holds this run's buckets: loop running or finished
InLoop == pc \in {"l59", "l68"}
AfterDedup == pc \in {"l71", "l103", "l104", "l110", "l116"} \/ Completed

\* words of the spans of entities[1..n] tagged with the category of bucket k
WordsOf(k, n) ==
    {entities[j].word : j \in {i \in 1..n : entities[i].entity_group = Category[k]}}

\* what the page holds after the "Extracted Entities:" subheader
EntityPart == SubSeq(output, Len(Header) + 4, Len(output))

\* C1: every surface text in a bucket is the word of an input span whose
\* entity_group is the bucket's category, and a span of any other
\* entity_group adds nothing: while the loop runs the three buckets hold
\* exactly as many entries as ORG, LOC and PER spans were processed.
C1_BucketsHoldMatchingSpans ==
    (InLoop \/ AfterDedup) =>
        /\ \A k \in Keys : \A w \in Range(grouped_entities[k]) :
              \E j \in 1..(idx - 1) :
                  entities[j] = [entity_group |-> Category[k], word |-> w]
        /\ InLoop =>
              Len(grouped_entities["ORGs"]) + Len(grouped_entities["LOCs"])
                + Len(grouped_entities["PERs"])
              = Cardinality({j \in 1..(idx - 1) :
                    entities[j].entity_group \in {"ORG", "LOC", "PER"}})

C1_Witness ==
    /\ pc = "l71"
    /\ \E j \in 1..Len(entities) : entities[j].entity_group = "MISC"
    /\ grouped_entities["ORGs"] # <<>>

\* C2: after the duplicate removal no bucket holds a surface text twice.
C2_NoDuplicates ==
    AfterDedup =>
        \A k \in Keys : \A i, j \in 1..Len(grouped_entities[k]) :
            i # j => grouped_entities[k][i] # grouped_entities[k][j]

C2_Witness ==
    /\ pc = "l71"
    /\ \E i, j \in 1..Len(entities) :
          i < j /\ entities[i] = entities[j] /\ entities[i].entity_group = "ORG"

\* C3: the returned dict has exactly the keys ORGs, LOCs, PERs, and the set
\* of values of each bucket is exactly the set of words of the input spans
\* of its category.
C3_BucketsAreExactlyTheSpans ==
    AfterDedup =>
        /\ DOMAIN grouped_entities = Keys
        /\ \A k \in Keys :
              Range(grouped_entities[k]) = WordsOf(k, Len(entities))

C3_Witness ==
    /\ pc = "l71"
    /\ grouped_entities["LOCs"] # <<>>
    /\ grouped_entities["PERs"] # <<>>

Section(k) ==
    IF WordsOf(k, Len(entities)) = {}
      THEN {<<Item("write", Placeholder[k])>>}
      ELSE {<<Item("write", Heading[k])>> \o [i \in 1..Len(s) |-> Bullet(s[i])] :
                s \in Orderings(WordsOf(k, Len(entities)))}

\* C5: a completed run renders, for each category in turn, either the
\* heading followed by one bullet per unique value or the placeholder, and
\* with no span at all the three placeholders and nothing else.
C5_HeadingWithBulletsOrPlaceholder ==
    Completed =>
        /\ \E a \in Section("ORGs"), b \in Section("LOCs"), c \in Section("PERs") :
              EntityPart = a \o b \o c
        /\ entities = <<>> =>
              EntityPart = << Item("write", "No organizations found."),
                              Item("write", "No locations found."),
                              Item("write", "No persons found.") >>

C5_Witness ==
    /\ Completed
    /\ Len(grouped_entities["ORGs"]) = 2
    /\ grouped_entities["PERs"] = <<>>

\* C6: a span the tagger labels as a date is extracted into the grouped
\* result and shown to the user.
C6_DatesAreExtracted ==
    Completed =>
        \A j \in 1..Len(entities) : entities[j].entity_group = "DATE" =>
            /\ \E k \in Keys : entities[j].word \in Range(grouped_entities[k])
            /\ Bullet(entities[j].word) \in Range(EntityPart)

\* C7: a call that raises ends the run where it is: the run is failed, no
\* value stands in for the result, the page holds nothing of the later
\* steps, and the only step after it is the next script run.
C7_FailureEndsTheRun ==
    [][ /\ failedAt' # None =>
              /\ pc' = "failed"
              /\ failedAt' \in {"l93", "l94", "l38", "l39", "l40"} =>
                    output' = Header
              /\ failedAt' = "l56" =>
                    output' = Header \o << Item("subheader", "Transcription:"),
                                           Item("write", transcript') >>
        /\ pc' = "failed" /\ pc # "failed" =>
              /\ failedAt' = pc
              /\ <<loads, handles, audio, transcript, entities,
                   grouped_entities, output>>' =
                 <<loads, handles, audio, transcript, entities,
                   grouped_entities, output>>
        /\ pc = "failed" => pc' = "l78" /\ reqNo' = reqNo + 1
      ]_vars

C7_Witness ==
    /\ pc = "failed"
    /\ failedAt = "l56"
    /\ Len(output) = Len(Header) + 2

\* what every page starts with, once the run has got that far
FixedPart ==
    Header \o << Item("subheader", "Transcription:"),
                 Item("write", transcript),
                 Item("subheader", "Extracted Entities:") >>

\* place of a heading or placeholder among the categories; 0 for a bullet
SectionRank(item) ==
    IF item.text \in {Heading["ORGs"], Placeholder["ORGs"]} THEN 1
    ELSE IF item.text \in {Heading["LOCs"], Placeholder["LOCs"]} THEN 2
    ELSE IF item.text \in {Heading["PERs"], Placeholder["PERs"]} THEN 3
    ELSE 0

\* the page is a prefix of the fixed order: title, introduction, transcript,
\* entity subheader, then the categories as Organizations, Locations,
\* Persons, each once, a bullet only after a heading or another bullet
PageInOrder ==
    LET n == IF Len(output) < Len(FixedPart) THEN Len(output) ELSE Len(FixedPart)
        part == EntityPart
        fixed == {i \in 1..Len(part) : SectionRank(part[i]) # 0}
    IN /\ SubSeq(output, 1, n) = SubSeq(FixedPart, 1, n)
       /\ \A i \in fixed :
             SectionRank(part[i]) = Cardinality({j \in fixed : j <= i})
       /\ \A i \in 1..Len(part) : SectionRank(part[i]) = 0 =>
             /\ i > 1
             /\ part[i] \in {Bullet(w) : w \in Words}
             /\ \/ SectionRank(part[i - 1]) = 0
                \/ part[i - 1].text \in {Heading[k] : k \in Keys}

C9_NothingCarriedOver ==
    AfterDedup =>
        \A w \in Words :
            (\/ Bullet(w) \in Range(output)
             \/ \E k \in Keys : w \in Range(grouped_entities[k]))
            => \E j \in 1..Len(entities) :
                  /\ entities[j].word = w
                  /\ entities[j].entity_group \in {"ORG", "LOC", "PER"}

C9_Witness ==
    /\ Completed
    /\ reqNo >= 2
    /\ \E w \in seenWords : \A j \in 1..Len(entities) : entities[j].word # w
    /\ \E w \in Words : Bullet(w) \in Range(output)

\* C10: every run with an uploaded file loads both models anew: the handle
\* that transcribes and the handle that tags were constructed in that run,
\* one a speech-to-text handle and the other a token-classification handle.
C10_ModelsReloadedEveryRun ==
    /\ Len(output) > Len(Header) =>
          /\ asr_by = tr_whisper
          /\ asr_by.task = "automatic-speech-recognition"
          /\ asr_by.id > loadsAtStart
          /\ whisper_model.id > loadsAtStart
          /\ ner_model.task = "ner"
          /\ ner_model.id > loadsAtStart
    /\ Len(output) > Len(Header) + 2 =>
          /\ ner_by = ner_model
          /\ ner_by.id > loadsAtStart

C10_Witness ==
    /\ Completed
    /\ reqNo = 2

====
